---- MODULE Spec2Model ----
(***************************************************************************)
(* A model of pyfwf3: parsing of fixed-width-field lines into records      *)
(* (BaseLineParser), loading of a file into a root QuerySet                *)
(* (BaseFileParser.__init__) and the QuerySet query operations.            *)
(*                                                                         *)
(* Text is a sequence of one-character strings.  Python's None is the      *)
(* value None below, which is no text.                                     *)
(***************************************************************************)
EXTENDS Integers, Sequences, FiniteSets, TLC

VARIABLES
    parser,       \* the line parser variant: [map, pre, post]
    rec,          \* SpecLine: the record under construction (self)
    lpc,          \* SpecLine: position inside BaseLineParser.__init__
    file,         \* file_discriptor.readlines(): the sequence of line texts
    line_number,  \* BaseFileParser.__init__: local line_number
    lines,        \* BaseFileParser.__init__: local list of accepted records
    pc,           \* position of BaseFileParser.__init__
    raised,       \* the exception that left the running call, or NoExc
    log,          \* per line read, what its construction ended with
    lists,        \* heap of list objects (each a sequence of records)
    qs,           \* heap of QuerySet objects: [lines |-> list ref, parent]
    last          \* the last query call: its arguments and what it returned

vars == <<parser, rec, lpc, file, line_number, lines, pc, raised, log,
          lists, qs, last>>

lineVars == <<rec, lpc>>
loadVars == <<file, line_number, lines, pc, log>>
queryVars == <<lists, qs, last>>

(***************************************************************************)
(* Bounds of the model.                                                    *)
(***************************************************************************)
MaxLineLen == 2
MaxPos == 2
MaxLines == 3
MaxRecords == 2
MaxDerived == 1

(***************************************************************************)
(* Text.                                                                   *)
(***************************************************************************)
None == <<"None">>

\* No exception.
NoExc == "NoExc"

Chars == {" ", "a", "b"}

\* str.rstrip() with no argument strips whitespace.
Whitespace == {" ", "\n", "\t"}

Ord(c) == CASE c = "\t" -> 9 [] c = "\n" -> 10 [] c = " " -> 32
            [] c = "a" -> 97 [] c = "b" -> 98

Texts(n) == UNION {[1..k -> Chars] : k \in 0..n}

Min(x, y) == IF x < y THEN x ELSE y

Max(x, y) == IF x < y THEN y ELSE x

\* The k-th smallest member of the set S of numbers.
Kth(S, k) == CHOOSE i \in S : Cardinality({j \in S : j <= i}) = k

Truthy(x) == x # None /\ x # <<>>

\* x or y
PyOr(x, y) == IF Truthy(x) THEN x ELSE y

\* text[start:stop] for 0 <= start, 0 <= stop: both ends are clipped to the
\* length of the text; never an error.
Slice(text, start, stop) ==
    LET lo == Min(start, Len(text))
        hi == Min(stop, Len(text))
    IN  IF lo >= hi THEN <<>> ELSE SubSeq(text, lo + 1, hi)

RECURSIVE Strip(_)
Strip(text) ==
    IF text = <<>> THEN <<>>
    ELSE IF text[Len(text)] \in Whitespace
         THEN Strip(SubSeq(text, 1, Len(text) - 1))
         ELSE IF text[1] \in Whitespace
              THEN Strip(SubSeq(text, 2, Len(text)))
              ELSE text

RECURSIVE RStrip(_)
RStrip(text) ==
    IF text = <<>> THEN <<>>
    ELSE IF text[Len(text)] \in Whitespace
         THEN RStrip(SubSeq(text, 1, Len(text) - 1))
         ELSE text

(***************************************************************************)
(* Field maps and line parser variants.                                    *)
(***************************************************************************)
Ranges == {r \in [start : 0..MaxPos, stop : 0..MaxPos] : r.start <= r.stop}

\* _map: an OrderedDict name -> slice, as the sequence of its items.
FieldMaps ==
    {<<>>}
    \cup {<<[name |-> "a", start |-> r.start, stop |-> r.stop]>> :
              r \in Ranges}
    \cup {<<[name |-> "a", start |-> r.start, stop |-> r.stop],
            [name |-> "b", start |-> s.start, stop |-> s.stop]>> :
              r \in Ranges, s \in Ranges}

MapKeys(map) == [i \in 1..Len(map) |-> map[i].name]

\* What an overriding _before_parse does: nothing (the base hook), raise
\* InvalidLineError, raise anything else, or set the line to parse.
PreHooks ==
    {[kind |-> "pass", text |-> None],
     [kind |-> "skip", text |-> None],
     [kind |-> "fault", text |-> None],
     [kind |-> "replace", text |-> <<>>],
     [kind |-> "replace", text |-> <<"b", "a">>]}

\* What an overriding _after_parse does.
PostHooks == {"pass", "skip", "fault"}

DefaultPre == [kind |-> "pass", text |-> None]

DefaultPost == "pass"

(***************************************************************************)
(* BaseLineParser.__init__, statement by statement.  A record under        *)
(* construction is [_parsable_line, _unparsed_line, _line_number,          *)
(* _headers, attrs], attrs the public attributes set so far.               *)
(***************************************************************************)
NewRecord(line, ln, map) ==
    [_parsable_line |-> None,
     _unparsed_line |-> line,
     _line_number |-> ln,
     _headers |-> MapKeys(map),
     attrs |-> <<>>]

\* self._before_parse(): [exc, self]
BeforeParse(self, pre) ==
    CASE pre.kind = "pass" -> [exc |-> NoExc, self |-> self]
      [] pre.kind = "skip" -> [exc |-> "InvalidLineError", self |-> self]
      [] pre.kind = "fault" -> [exc |-> "AttributeError", self |-> self]
      [] pre.kind = "replace" ->
            [exc |-> NoExc, self |-> [self EXCEPT !._parsable_line = pre.text]]

\* line = self._parsable_line or self._unparsed_line
ParseText(self) == PyOr(self._parsable_line, self._unparsed_line)

\* for k, v in self._map.items(): self.__setattr__(k, line[v].rstrip())
RECURSIVE SetFields(_, _, _, _)
SetFields(attrs, map, text, i) ==
    IF i > Len(map) THEN attrs
    ELSE SetFields(
            (map[i].name :> RStrip(Slice(text, map[i].start, map[i].stop)))
                @@ attrs,
            map, text, i + 1)

ExtractFields(self, map) ==
    [self EXCEPT !.attrs = SetFields(self.attrs, map, ParseText(self), 1)]

\* self._after_parse(): [exc, self]
AfterParse(self, post) ==
    CASE post = "pass" -> [exc |-> NoExc, self |-> self]
      [] post = "skip" -> [exc |-> "InvalidLineError", self |-> self]
      [] post = "fault" -> [exc |-> "ValueError", self |-> self]

\* l.__getattribute__(name) for a public name
HasAttr(l, name) == name \in DOMAIN l.attrs

\* BaseLineParser._values(*args): args = args or self._headers
RecordValues(l, args) ==
    LET use == IF args = <<>> THEN l._headers ELSE args
    IN  [i \in 1..Len(use) |-> l.attrs[use[i]]]

\* The whole constructor: [exc, self].
Construct(line, ln, p) ==
    LET r0 == NewRecord(line, ln, p.map)
        b == BeforeParse(r0, p.pre)
        r1 == ExtractFields(b.self, p.map)
        a == AfterParse(r1, p.post)
    IN  IF b.exc # NoExc THEN [exc |-> b.exc, self |-> b.self] ELSE a

(***************************************************************************)
(* SpecLine: one construction BaseLineParser(line, line_number).           *)
(***************************************************************************)
Parsers == [map : FieldMaps, pre : PreHooks, post : PostHooks]

\* A call record: op(args) on collection src (or on the file parser) raised
\* exc or returned collection number out or the plain value value; args and
\* value are [t |-> kind, v |-> content].
NoValue == [t |-> "none", v |-> 0]

NoCall == [op |-> "none", on |-> "none", src |-> 0, args |-> NoValue,
           exc |-> NoExc, out |-> 0, value |-> NoValue]

IdleLoad ==
    /\ file = <<>>
    /\ line_number = 0
    /\ lines = <<>>
    /\ pc = "idle"
    /\ log = <<>>

IdleQuery ==
    /\ lists = <<>>
    /\ qs = <<>>
    /\ last = NoCall

InitLine ==
    /\ parser \in Parsers
    /\ \E line \in Texts(MaxLineLen) : rec = NewRecord(line, 1, parser.map)
    /\ lpc = "created"
    /\ raised = NoExc
    /\ IdleLoad
    /\ IdleQuery

LineBeforeParse ==
    /\ lpc = "created"
    /\ LET b == BeforeParse(rec, parser.pre)
       IN  /\ rec' = b.self
           /\ raised' = b.exc
           /\ lpc' = CASE b.exc = NoExc -> "pre_run"
                       [] b.exc = "InvalidLineError" -> "rejected"
                       [] OTHER -> "fault"
    /\ UNCHANGED <<parser, loadVars, queryVars>>

LineExtract ==
    /\ lpc = "pre_run"
    /\ rec' = ExtractFields(rec, parser.map)
    /\ lpc' = "extracted"
    /\ UNCHANGED <<parser, raised, loadVars, queryVars>>

LineAfterParse ==
    /\ lpc = "extracted"
    /\ LET a == AfterParse(rec, parser.post)
       IN  /\ rec' = a.self
           /\ raised' = a.exc
           /\ lpc' = CASE a.exc = NoExc -> "accepted"
                       [] a.exc = "InvalidLineError" -> "rejected"
                       [] OTHER -> "fault"
    /\ UNCHANGED <<parser, loadVars, queryVars>>

NextLine == LineBeforeParse \/ LineExtract \/ LineAfterParse

SpecLine == InitLine /\ [][NextLine]_vars

(***************************************************************************)
(* SpecLoad: BaseFileParser.__init__(file_discriptor, line_parser), one    *)
(* iteration of its loop per step.  What the variant's hooks do with a     *)
(* line is user code that looks at the line: it is drawn per line, and log *)
(* keeps, per line read, how its construction ended.                       *)
(***************************************************************************)
\* Line texts of the files loaded: a full line, a line with trailing
\* whitespace, a line shorter than the map.  readlines() gives no empty text.
FileTexts == {<<"a", "b">>, <<"b", " ">>, <<"a">>}

Files == UNION {[1..n -> FileTexts] : n \in 0..MaxLines}

\* The files whose collections are queried.
QueryFiles ==
    UNION {[1..n -> {<<"a", "b">>, <<"b", " ">>}] : n \in 0..MaxRecords}

\* The field map of the variant the files are loaded with.
LoadMap == <<[name |-> "a", start |-> 0, stop |-> 1],
             [name |-> "b", start |-> 1, stop |-> 2]>>

LoadPreHooks == {h \in PreHooks : h.kind # "replace"}

\* except InvalidLineError: pass
CaughtAll(exc) == TRUE

CaughtNone(exc) == FALSE

Caught(exc) == exc = "InvalidLineError"

\* The line number handed to the record: self._line_parser(l, line_number)
NumberOfAccepted(ln, accepted) == Len(accepted) + 1

RecordNumber(ln, accepted) == ln

\* self.lines = self.QuerySet(lines, self)
RootQuerySet(ref) == [lines |-> ref, parent |-> "self"]

InitLoad ==
    /\ parser = [map |-> LoadMap, pre |-> DefaultPre, post |-> DefaultPost]
    /\ rec = None
    /\ lpc = "idle"
    /\ file \in Files
    /\ line_number = 0
    /\ lines = <<>>
    /\ pc = "loading"
    /\ raised = NoExc
    /\ log = <<>>
    /\ IdleQuery

\* One iteration of: for l in file_discriptor.readlines()
LoadLine ==
    /\ pc = "loading"
    /\ line_number < Len(file)
    /\ line_number' = line_number + 1
    /\ LET l == file[line_number']
       IN  IF ~Truthy(l)
           THEN /\ log' = Append(log, [exc |-> "NotParsed"])
                /\ UNCHANGED <<lines, pc, raised>>
           ELSE \E pre \in LoadPreHooks, post \in PostHooks :
                  LET c == Construct(l, RecordNumber(line_number', lines),
                                     [map |-> parser.map, pre |-> pre,
                                      post |-> post])
                  IN  /\ log' = Append(log, [exc |-> c.exc])
                      /\ IF c.exc = NoExc
                         THEN /\ lines' = Append(lines, c.self)
                              /\ UNCHANGED <<pc, raised>>
                         ELSE IF Caught(c.exc)
                         THEN UNCHANGED <<lines, pc, raised>>
                         ELSE /\ pc' = "aborted"
                              /\ raised' = c.exc
                              /\ UNCHANGED lines
    /\ UNCHANGED <<parser, lineVars, file, queryVars>>

\* After the loop: self.lines = self.QuerySet(lines, self)
LoadFinish ==
    /\ pc = "loading"
    /\ line_number = Len(file)
    /\ lists' = <<lines>>
    /\ qs' = <<RootQuerySet(1)>>
    /\ pc' = "loaded"
    /\ UNCHANGED <<parser, lineVars, file, line_number, lines, raised, log,
                   last>>

NextLoad == LoadLine \/ LoadFinish

SpecLoad == InitLoad /\ [][NextLoad]_vars

\* The records of the root collection (self.lines.lines), once loaded.
RootLines == lists[qs[1].lines]

(***************************************************************************)
(* SpecBuild: the load loop with every construction taken statement by     *)
(* statement.  Here log keeps, per line read, the steps its construction   *)
(* has run and the exception it ended with ("Running" until it ends).      *)
(***************************************************************************)
\* The files loaded step by step.
BuildFiles == QueryFiles

\* The statements of BaseLineParser.__init__ that do the work, in order.
Steps == <<"_before_parse", "extract", "_after_parse">>

\* A constructor in which an exception of a hook is lost.
OutcomeIgnored(exc, ok) == ok

\* Where the constructor stands after a hook: an exception leaves it.
Outcome(exc, ok) ==
    CASE exc = NoExc -> ok
      [] exc = "InvalidLineError" -> "rejected"
      [] OTHER -> "fault"

\* The entry of the line under construction after one more step.
Logged(step, exc) ==
    [log EXCEPT ![line_number] =
        [exc |-> exc, steps |-> Append(@.steps, step)]]

InitBuild ==
    /\ parser = [map |-> LoadMap, pre |-> DefaultPre, post |-> DefaultPost]
    /\ rec = None
    /\ lpc = "idle"
    /\ file \in BuildFiles
    /\ line_number = 0
    /\ lines = <<>>
    /\ pc = "loading"
    /\ raised = NoExc
    /\ log = <<>>
    /\ IdleQuery

\* for l in ...: line_number += 1; if l: self._line_parser(l, line_number)
\* is entered, up to the call of the first hook.
BuildRead ==
    /\ pc = "loading" /\ lpc = "idle"
    /\ line_number < Len(file)
    /\ line_number' = line_number + 1
    /\ LET l == file[line_number']
       IN  IF ~Truthy(l)
           THEN /\ log' = Append(log, [exc |-> "NotParsed", steps |-> <<>>])
                /\ UNCHANGED <<parser, rec, lpc>>
           ELSE /\ \E pre \in PreHooks, post \in PostHooks :
                      parser' = [map |-> parser.map, pre |-> pre,
                                 post |-> post]
                /\ rec' = NewRecord(l, RecordNumber(line_number', lines),
                                    parser.map)
                /\ lpc' = "created"
                /\ log' = Append(log, [exc |-> "Running", steps |-> <<>>])
    /\ UNCHANGED <<file, lines, pc, raised, queryVars>>

BuildBeforeParse ==
    /\ pc = "loading" /\ lpc = "created"
    /\ LET b == BeforeParse(rec, parser.pre)
       IN  /\ rec' = b.self
           /\ lpc' = Outcome(b.exc, "pre_run")
           /\ log' = Logged("_before_parse",
                            IF b.exc = NoExc THEN "Running" ELSE b.exc)
    /\ UNCHANGED <<parser, file, line_number, lines, pc, raised, queryVars>>

BuildExtract ==
    /\ pc = "loading" /\ lpc = "pre_run"
    /\ rec' = ExtractFields(rec, parser.map)
    /\ lpc' = "extracted"
    /\ log' = Logged("extract", log[line_number].exc)
    /\ UNCHANGED <<parser, file, line_number, lines, pc, raised, queryVars>>

BuildAfterParse ==
    /\ pc = "loading" /\ lpc = "extracted"
    /\ LET a == AfterParse(rec, parser.post)
       IN  /\ rec' = a.self
           /\ lpc' = Outcome(a.exc, "accepted")
           /\ log' = Logged("_after_parse", a.exc)
    /\ UNCHANGED <<parser, file, line_number, lines, pc, raised, queryVars>>

\* The constructor is left: lines.append(...), or except InvalidLineError:
\* pass, or the exception leaves __init__ of the file parser.
BuildReturn ==
    /\ pc = "loading" /\ lpc \in {"accepted", "rejected", "fault"}
    /\ lpc' = "idle"
    /\ IF lpc = "accepted"
       THEN /\ lines' = Append(lines, rec)
            /\ UNCHANGED <<pc, raised>>
       ELSE IF Caught(log[line_number].exc)
       THEN UNCHANGED <<lines, pc, raised>>
       ELSE /\ pc' = "aborted"
            /\ raised' = log[line_number].exc
            /\ UNCHANGED lines
    /\ UNCHANGED <<parser, rec, file, line_number, log, queryVars>>

BuildFinish == lpc = "idle" /\ LoadFinish

NextBuild ==
    \/ BuildRead
    \/ BuildBeforeParse
    \/ BuildExtract
    \/ BuildAfterParse
    \/ BuildReturn
    \/ BuildFinish

SpecBuild == InitBuild /\ [][NextBuild]_vars

(***************************************************************************)
(* Python values met by the query engine: [t |-> type, v |-> value].       *)
(***************************************************************************)
PyStr(text) == [t |-> "str", v |-> text]

PyInt(n) == [t |-> "int", v |-> n]

ListOf(items) == [t |-> "list", v |-> items]

TupleOf(items) == [t |-> "tuple", v |-> items]

\* x == y: values of different types are unequal, never an error.
PyEq(x, y) == x.t = y.t /\ x.v = y.v

\* s < t for str: by code point, a proper prefix first.
RECURSIVE StrLess(_, _)
StrLess(s, t) ==
    IF t = <<>> THEN FALSE
    ELSE IF s = <<>> THEN TRUE
    ELSE IF Ord(s[1]) # Ord(t[1]) THEN Ord(s[1]) < Ord(t[1])
    ELSE StrLess(Tail(s), Tail(t))

StartsWith(s, prefix) ==
    Len(prefix) <= Len(s) /\ SubSeq(s, 1, Len(prefix)) = prefix

EndsWith(s, suffix) ==
    Len(suffix) <= Len(s)
    /\ SubSeq(s, Len(s) - Len(suffix) + 1, Len(s)) = suffix

\* sub in s for str
Contains(s, sub) ==
    \E i \in 0..(Len(s) - Len(sub)) : SubSeq(s, i + 1, i + Len(sub)) = sub

(***************************************************************************)
(* QuerySet._filter_validators and the evaluation of the validators.       *)
(* A keyword is [key, value]; the key is given as the sequence of its      *)
(* parts between "__" separators, so that "a" is <<"a">>, "a__gt" is       *)
(* <<"a", "gt">> and "a__x__y" is <<"a", "x", "y">>.                        *)
(***************************************************************************)
\* "__" not in field
HasSeparator(key) == Len(key) > 1

\* {"lte": "le", "gte": "ge"}.get(field_attr, field_attr)
Alias(attr) ==
    CASE attr = "lte" -> "le" [] attr = "gte" -> "ge" [] OTHER -> attr

\* real_field, field_attr = field.split("__"): unpacking wants two parts.
RECURSIVE Validators(_, _, _)
Validators(keywords, i, acc) ==
    IF i > Len(keywords) THEN [exc |-> NoExc, validators |-> acc]
    ELSE LET key == keywords[i].key
             value == keywords[i].value
         IN  IF ~HasSeparator(key)
             THEN Validators(keywords, i + 1,
                     Append(acc, [field |-> key[1], function |-> "equals",
                                  attr |-> "", value |-> value]))
             ELSE IF Len(key) # 2
             THEN [exc |-> "ValueError", validators |-> acc]
             ELSE Validators(keywords, i + 1,
                     Append(acc, [field |-> key[1],
                                  function |-> "attr_comparisons",
                                  attr |-> Alias(key[2]), value |-> value]))

FilterValidators(keywords) == Validators(keywords, 1, <<>>)

\* Names a str has as they are, and names it has between double underscores.
StrAttrs == {"startswith", "endswith"}

StrDunders == {"gt", "ge", "lt", "le", "eq", "ne", "len"}

\* bool(NotImplemented): True before Python 3.14, TypeError from 3.14 on.
BoolOfNotImplemented == {"True", "TypeError"}

\* str.__gt__(value) and the like: NotImplemented for a value that is no str.
RichCompare(attr, obj, value) ==
    IF value.t # "str" THEN [notimplemented |-> TRUE, val |-> FALSE]
    ELSE [notimplemented |-> FALSE,
          val |-> CASE attr = "gt" -> StrLess(value.v, obj.v)
                    [] attr = "ge" -> ~StrLess(obj.v, value.v)
                    [] attr = "lt" -> StrLess(obj.v, value.v)
                    [] attr = "le" -> ~StrLess(value.v, obj.v)
                    [] attr = "eq" -> obj.v = value.v
                    [] attr = "ne" -> obj.v # value.v]

\* attr_comparisons(obj, attr, value) for a str obj: [exc, val]
AttrComparisons(obj, attr, value, ni) ==
    IF attr = "in"
    THEN CASE value.t = "list" ->
                [exc |-> NoExc,
                 val |-> \E i \in DOMAIN value.v : PyEq(obj, value.v[i])]
           [] value.t = "str" ->
                [exc |-> NoExc, val |-> Contains(value.v, obj.v)]
           [] OTHER -> [exc |-> "TypeError", val |-> FALSE]
    ELSE IF attr \in StrAttrs
    THEN \* obj.startswith(value); a TypeError leads to obj.startswith(),
         \* which raises TypeError again
         IF value.t # "str" THEN [exc |-> "TypeError", val |-> FALSE]
         ELSE [exc |-> NoExc,
               val |-> IF attr = "startswith" THEN StartsWith(obj.v, value.v)
                       ELSE EndsWith(obj.v, value.v)]
    ELSE IF attr \notin StrDunders
    THEN [exc |-> "AttributeError", val |-> FALSE]
    ELSE IF attr = "len"
    THEN \* obj.__len__(value) raises TypeError: obj.__len__() == value
         [exc |-> NoExc, val |-> PyEq(PyInt(Len(obj.v)), value)]
    ELSE LET r == RichCompare(attr, obj, value)
         IN  IF r.notimplemented
             THEN IF ni = "True" THEN [exc |-> NoExc, val |-> TRUE]
                  \* bool() raises TypeError: obj.__gt__() raises TypeError
                  ELSE [exc |-> "TypeError", val |-> FALSE]
             ELSE [exc |-> NoExc, val |-> r.val]

\* function(l.__getattribute__(field), *args): [exc, val]
Validate(l, v, ni) ==
    IF ~HasAttr(l, v.field) THEN [exc |-> "AttributeError", val |-> FALSE]
    ELSE IF v.function = "equals"
    THEN [exc |-> NoExc, val |-> PyEq(PyStr(l.attrs[v.field]), v.value)]
    ELSE AttrComparisons(PyStr(l.attrs[v.field]), v.attr, v.value, ni)

\* [function(...) for field, function, args in validators]: the whole list is
\* built, so the first validator that raises ends it: [exc, vals]
ValidateAll(l, validators, ni) ==
    LET res == [j \in DOMAIN validators |-> Validate(l, validators[j], ni)]
        bad == {j \in DOMAIN res : res[j].exc # NoExc}
    IN  IF bad # {}
        THEN [exc |-> res[CHOOSE j \in bad : \A k \in bad : j <= k].exc,
              vals |-> <<>>]
        ELSE [exc |-> NoExc, vals |-> [j \in DOMAIN res |-> res[j].val]]

PyAll(vals) == \A j \in DOMAIN vals : vals[j]

PyAny(vals) == \E j \in DOMAIN vals : vals[j]

\* The list comprehension of filter (keep = "all") and of exclude
\* (keep = "not any") over self.lines: [exc, lines]
Select(ls, keywords, keep, ni) ==
    LET fv == FilterValidators(keywords)
        res == [i \in DOMAIN ls |-> ValidateAll(ls[i], fv.validators, ni)]
        bad == {i \in DOMAIN ls : res[i].exc # NoExc}
        Kept(i) == IF keep = "all" THEN PyAll(res[i].vals)
                   ELSE ~PyAny(res[i].vals)
        idx == {i \in DOMAIN ls : Kept(i)}
    IN  IF fv.exc # NoExc THEN [exc |-> fv.exc, lines |-> <<>>]
        ELSE IF bad # {}
        THEN [exc |-> res[CHOOSE i \in bad : \A k \in bad : i <= k].exc,
              lines |-> <<>>]
        ELSE [exc |-> NoExc,
              lines |-> [k \in 1..Cardinality(idx) |-> ls[Kth(idx, k)]]]

FilterLines(ls, keywords, ni) == Select(ls, keywords, "all", ni)

\* exclude that keeps the lines that match.
KeepMatching(ls, keywords, ni) == Select(ls, keywords, "all", ni)

ExcludeLines(ls, keywords, ni) == Select(ls, keywords, "not any", ni)

(***************************************************************************)
(* sorted(self.lines, key=..., reverse=reverse)                            *)
(***************************************************************************)
Reverse(seq) == [i \in 1..Len(seq) |-> seq[Len(seq) + 1 - i]]

\* x goes in front of the first element whose key is greater than its own.
InsertBeforeEqual(sorted, x, field) ==
    LET after == {i \in DOMAIN sorted :
                     ~StrLess(sorted[i].attrs[field], x.attrs[field])}
        at == IF after = {} THEN Len(sorted) + 1
              ELSE CHOOSE i \in after : \A k \in after : i <= k
    IN  SubSeq(sorted, 1, at - 1) \o <<x>> \o SubSeq(sorted, at, Len(sorted))

StableInsert(sorted, x, field) ==
    LET after == {i \in DOMAIN sorted :
                     StrLess(x.attrs[field], sorted[i].attrs[field])}
        at == IF after = {} THEN Len(sorted) + 1
              ELSE CHOOSE i \in after : \A k \in after : i <= k
    IN  SubSeq(sorted, 1, at - 1) \o <<x>> \o SubSeq(sorted, at, Len(sorted))

RECURSIVE StableSort(_, _, _)
StableSort(ls, field, n) ==
    IF n = 0 THEN <<>>
    ELSE StableInsert(StableSort(ls, field, n - 1), ls[n], field)

\* reverse=True: the list is reversed, sorted and reversed again, which
\* keeps equal keys in their original order.
Sorted(ls, field, reverse) ==
    IF reverse
    THEN Reverse(StableSort(Reverse(ls), field, Len(ls)))
    ELSE StableSort(ls, field, Len(ls))

\* order_by: the key function raises AttributeError for an unknown field.
OrderByLines(ls, field, reverse) ==
    IF \E i \in DOMAIN ls : ~HasAttr(ls[i], field)
    THEN [exc |-> "AttributeError", lines |-> <<>>]
    ELSE [exc |-> NoExc, lines |-> Sorted(ls, field, reverse)]

(***************************************************************************)
(* QuerySet.values, unique, count, __getitem__                             *)
(***************************************************************************)
\* values(*args): [exc, data, headers]
ValuesOf(ls, args) ==
    LET use == IF args = <<>> /\ ls # <<>> THEN ls[1]._headers ELSE args
        missing == \E i \in DOMAIN ls :
                      \E j \in DOMAIN args : ~HasAttr(ls[i], args[j])
        data == IF Len(args) = 1
                THEN [i \in DOMAIN ls |-> PyStr(ls[i].attrs[args[1]])]
                ELSE [i \in DOMAIN ls |->
                        LET vs == RecordValues(ls[i], args)
                        IN  TupleOf([j \in DOMAIN vs |-> PyStr(vs[j])])]
    IN  IF missing THEN [exc |-> "AttributeError", data |-> <<>>,
                         headers |-> <<>>]
        ELSE [exc |-> NoExc, data |-> data, headers |-> use]

Range(seq) == {seq[i] : i \in DOMAIN seq}

\* The orders a list built from a set may have.
Orderings(S) ==
    {seq \in [1..Cardinality(S) -> S] : Range(seq) = S}

\* self.lines.__getitem__(index) for index = slice(start, stop), None being
\* an absent bound, and for a plain index.
SliceLines(ls, start, stop) ==
    Slice(ls, IF start.none THEN 0 ELSE start.v,
              IF stop.none THEN Len(ls) ELSE stop.v)

(***************************************************************************)
(* SpecQuery: query calls on the collections of a loaded file.  Init is    *)
(* the state BaseFileParser.__init__ leaves with the base hooks.  lists    *)
(* and qs are the heap: a QuerySet holds a reference to its list.          *)
(***************************************************************************)
\* A variant with a single field.
OneFieldMap == <<[name |-> "a", start |-> 0, stop |-> 1]>>

\* The list __init__ builds when no hook raises.
RECURSIVE LoadedRecords(_, _, _)
LoadedRecords(f, p, n) ==
    IF n = 0 THEN <<>>
    ELSE Append(LoadedRecords(f, p, n - 1), Construct(f[n], n, p).self)

InitQuery ==
    /\ \E map \in {LoadMap, OneFieldMap} :
          parser = [map |-> map, pre |-> DefaultPre, post |-> DefaultPost]
    /\ rec = None
    /\ lpc = "idle"
    /\ file \in QueryFiles
    /\ line_number = Len(file)
    /\ lines = LoadedRecords(file, parser, Len(file))
    /\ pc = "loaded"
    /\ raised = NoExc
    /\ log = [i \in 1..Len(file) |-> [exc |-> NoExc]]
    /\ lists = <<lines>>
    /\ qs = <<RootQuerySet(1)>>
    /\ last = NoCall

\* The keyword arguments tried with filter and exclude.
KeywordSets ==
    {<<>>,
     <<[key |-> <<"a">>, value |-> PyStr(<<"a">>)]>>,
     <<[key |-> <<"a">>, value |-> PyStr(<<"a">>)],
       [key |-> <<"b">>, value |-> PyStr(<<"b">>)]>>,
     <<[key |-> <<"zz">>, value |-> PyStr(<<"a">>)]>>,
     <<[key |-> <<"a", "gt">>, value |-> PyStr(<<"a">>)]>>,
     <<[key |-> <<"a", "gt">>, value |-> PyInt(1)]>>,
     <<[key |-> <<"a", "lte">>, value |-> PyStr(<<"a">>)]>>,
     <<[key |-> <<"a", "lte">>, value |-> PyInt(1)]>>,
     <<[key |-> <<"a", "len">>, value |-> PyInt(1)]>>,
     <<[key |-> <<"a", "startswith">>, value |-> PyStr(<<"b">>)]>>,
     <<[key |-> <<"a", "in">>,
        value |-> ListOf(<<PyStr(<<"b">>), PyInt(1)>>)]>>,
     <<[key |-> <<"a", "month">>, value |-> PyInt(1)]>>,
     <<[key |-> <<"a", "len", "gt">>, value |-> PyInt(0)]>>}

FieldNames == {"a", "b", "zz"}

ValuesArgs == {<<>>, <<"a">>, <<"a", "b">>, <<"zz">>}

\* A bound of a slice: absent (None), or a number 0 <= v.
SliceBounds == {[none |-> TRUE, v |-> 0], [none |-> FALSE, v |-> 1]}

\* The calls the file parser is used with.
QueryOps == {"filter", "exclude", "values", "count", "order_by", "unique",
             "__getitem__"}

\* The lines of QuerySet number i.
LinesOf(i) == lists[qs[i].lines]

\* A heap in which the new collection shares the list of the one it comes
\* from, whose content it overwrites.
NewInPlace(src, newlines) ==
    [lists |-> [lists EXCEPT ![qs[src].lines] = newlines],
     qs |-> Append(qs, [lines |-> qs[src].lines, parent |-> qs[src].parent])]

\* QuerySet.new(lines): self.__class__(lines, self._parent_), on a list that
\* the caller has just built.
New(src, newlines) ==
    [lists |-> Append(lists, newlines),
     qs |-> Append(qs, [lines |-> Len(lists) + 1, parent |-> qs[src].parent])]

\* A call that returns self.new(r.lines), or raises r.exc.
ReturnNew(op, src, args, r) ==
    IF r.exc # NoExc
    THEN /\ last' = [op |-> op, on |-> "queryset", src |-> src,
                     args |-> args, exc |-> r.exc, out |-> 0,
                     value |-> NoValue]
         /\ UNCHANGED <<lists, qs>>
    ELSE /\ lists' = New(src, r.lines).lists
         /\ qs' = New(src, r.lines).qs
         /\ last' = [op |-> op, on |-> "queryset", src |-> src,
                     args |-> args, exc |-> NoExc, out |-> Len(qs) + 1,
                     value |-> NoValue]

\* A call that returns a plain value, or raises.
ReturnValue(op, src, args, exc, value) ==
    /\ last' = [op |-> op, on |-> "queryset", src |-> src, args |-> args,
                exc |-> exc, out |-> 0, value |-> value]
    /\ UNCHANGED <<lists, qs>>

CanDerive == Len(qs) <= MaxDerived

CallFilter ==
    /\ pc = "loaded" /\ CanDerive
    /\ \E src \in DOMAIN qs, kw \in KeywordSets, ni \in BoolOfNotImplemented :
          ReturnNew("filter", src, [t |-> "keywords", v |-> kw],
                    FilterLines(LinesOf(src), kw, ni))
    /\ UNCHANGED <<parser, lineVars, loadVars, raised>>

CallExclude ==
    /\ pc = "loaded" /\ CanDerive
    /\ \E src \in DOMAIN qs, kw \in KeywordSets, ni \in BoolOfNotImplemented :
          ReturnNew("exclude", src, [t |-> "keywords", v |-> kw],
                    ExcludeLines(LinesOf(src), kw, ni))
    /\ UNCHANGED <<parser, lineVars, loadVars, raised>>

CallOrderBy ==
    /\ pc = "loaded" /\ CanDerive
    /\ \E src \in DOMAIN qs, field \in FieldNames, reverse \in BOOLEAN :
          ReturnNew("order_by", src,
                    [t |-> "order",
                     v |-> [field |-> field, reverse |-> reverse]],
                    OrderByLines(LinesOf(src), field, reverse))
    /\ UNCHANGED <<parser, lineVars, loadVars, raised>>

\* __getitem__(slice(start, stop))
CallSlice ==
    /\ pc = "loaded" /\ CanDerive
    /\ \E src \in DOMAIN qs, start \in SliceBounds, stop \in SliceBounds :
          ReturnNew("slice", src,
                    [t |-> "slice", v |-> [start |-> start, stop |-> stop]],
                    [exc |-> NoExc,
                     lines |-> SliceLines(LinesOf(src), start, stop)])
    /\ UNCHANGED <<parser, lineVars, loadVars, raised>>

\* __getitem__(index) for an index 0 <= index
CallIndex ==
    /\ pc = "loaded"
    /\ \E src \in DOMAIN qs, index \in 0..MaxRecords :
          IF index < Len(LinesOf(src))
          THEN ReturnValue("index", src, [t |-> "index", v |-> index], NoExc,
                           [t |-> "line", v |-> LinesOf(src)[index + 1]])
          ELSE ReturnValue("index", src, [t |-> "index", v |-> index],
                           "IndexError", NoValue)
    /\ UNCHANGED <<parser, lineVars, loadVars, raised>>

CallValues ==
    /\ pc = "loaded"
    /\ \E src \in DOMAIN qs, args \in ValuesArgs :
          LET r == ValuesOf(LinesOf(src), args)
          IN  ReturnValue("values", src, [t |-> "fields", v |-> args], r.exc,
                          [t |-> "values",
                           v |-> [data |-> r.data, headers |-> r.headers]])
    /\ UNCHANGED <<parser, lineVars, loadVars, raised>>

\* list(set(self.values(*args))): the order of the list is that of the set.
CallUnique ==
    /\ pc = "loaded"
    /\ \E src \in DOMAIN qs, args \in ValuesArgs :
          LET r == ValuesOf(LinesOf(src), args)
          IN  IF r.exc # NoExc
              THEN ReturnValue("unique", src, [t |-> "fields", v |-> args],
                               r.exc, NoValue)
              ELSE \E out \in Orderings(Range(r.data)) :
                      ReturnValue("unique", src, [t |-> "fields", v |-> args],
                                  NoExc, [t |-> "list", v |-> out])
    /\ UNCHANGED <<parser, lineVars, loadVars, raised>>

\* count(): len(self), which is self.lines.__len__()
CallCount ==
    /\ pc = "loaded"
    /\ \E src \in DOMAIN qs :
          ReturnValue("count", src, NoValue, NoExc,
                      [t |-> "int", v |-> Len(LinesOf(src))])
    /\ UNCHANGED <<parser, lineVars, loadVars, raised>>

\* BaseFileParser.all(): return self.lines
FileAll ==
    /\ pc = "loaded"
    /\ last' = [op |-> "all", on |-> "file", src |-> 0, args |-> NoValue,
                exc |-> NoExc, out |-> 1, value |-> NoValue]
    /\ UNCHANGED <<parser, lineVars, loadVars, raised, lists, qs>>

\* The attributes a BaseFileParser has: those its class body and __init__
\* set.  It defines no __getattr__ and no __getitem__.
FileAttrs == {"QuerySet", "_line_parser", "lines", "open", "all"}

\* parsed.<op>(...) on the file parser itself, parsed[...] for __getitem__
FileCall ==
    /\ pc = "loaded"
    /\ \E op \in QueryOps :
          last' = [op |-> op, on |-> "file", src |-> 0, args |-> NoValue,
                   exc |-> IF op \in FileAttrs THEN NoExc
                           ELSE IF op = "__getitem__" THEN "TypeError"
                           ELSE "AttributeError",
                   out |-> 0, value |-> NoValue]
    /\ UNCHANGED <<parser, lineVars, loadVars, raised, lists, qs>>

NextQuery ==
    \/ CallFilter
    \/ CallExclude
    \/ CallOrderBy
    \/ CallSlice
    \/ CallIndex
    \/ CallValues
    \/ CallUnique
    \/ CallCount
    \/ FileAll
    \/ FileCall

SpecQuery == InitQuery /\ [][NextQuery]_vars

(***************************************************************************)
(* C1.  With the default hooks, construction never raises and values() is  *)
(* the tuple, in field-map order, of the characters of the line at each    *)
(* half-open range that lie inside the line, without trailing whitespace   *)
(* and with leading whitespace kept.                                       *)
(***************************************************************************)
\* The characters of text at the positions p, start <= p < stop, p < Len(text).
CharsInRange(text, start, stop) ==
    [i \in 1..Max(0, Min(stop, Len(text)) - start) |-> text[start + i]]

\* The longest prefix of text that does not end in whitespace.
WithoutTrailingWhitespace(text) ==
    LET keep == {m \in 1..Len(text) : text[m] \notin Whitespace}
        n == IF keep = {} THEN 0
             ELSE CHOOSE m \in keep : \A k \in keep : k <= m
    IN  [i \in 1..n |-> text[i]]

DefaultHooks == parser.pre = DefaultPre /\ parser.post = DefaultPost

\* C1: default hooks never raise, and values() is the right-trimmed substrings
\* of the line at the mapped ranges, in map order.
C1_DefaultValues ==
    DefaultHooks =>
        /\ lpc \notin {"rejected", "fault"}
        /\ raised = NoExc
        /\ lpc = "accepted" =>
              RecordValues(rec, <<>>) =
                 [i \in 1..Len(parser.map) |->
                    WithoutTrailingWhitespace(
                       CharsInRange(rec._unparsed_line,
                                    parser.map[i].start, parser.map[i].stop))]

\* A line shorter than the first range, with the second range wholly outside
\* it, has been parsed.
C1_Witness ==
    /\ DefaultHooks
    /\ lpc = "accepted"
    /\ rec._unparsed_line = <<"a">>
    /\ parser.map = <<[name |-> "a", start |-> 0, stop |-> 2],
                      [name |-> "b", start |-> 1, stop |-> 2]>>
    /\ RecordValues(rec, <<>>) = << <<"a">>, <<>> >>

(***************************************************************************)
(* File load: C2, C6, C7.                                                  *)
(***************************************************************************)
\* The numbers of the lines whose construction returned a record.
AcceptedNumbers == {i \in DOMAIN log : log[i].exc = NoExc}

\* The numbers of the lines a hook rejected with the skip signal.
RejectedNumbers == {i \in DOMAIN log : log[i].exc = "InvalidLineError"}

\* C2: a rejected line adds no record, raises nothing and does not stop the
\* load; after the load the root collection holds exactly the records of the
\* non-rejected lines, in file order.
C2_LoadSkipsRejected ==
    /\ \A i \in RejectedNumbers :
          /\ raised # "InvalidLineError"
          /\ pc = "aborted" => line_number > i
          /\ pc = "loading" => Len(lines) = Cardinality(AcceptedNumbers)
    /\ pc = "loaded" =>
          /\ raised = NoExc
          /\ Len(log) = Len(file)
          /\ DOMAIN log = AcceptedNumbers \cup RejectedNumbers
          /\ Len(RootLines) = Cardinality(AcceptedNumbers)
          /\ \A k \in DOMAIN RootLines :
                /\ RootLines[k]._unparsed_line = file[Kth(AcceptedNumbers, k)]
                /\ RootLines[k].attrs =
                      Construct(file[Kth(AcceptedNumbers, k)], 0,
                                [map |-> LoadMap, pre |-> DefaultPre,
                                 post |-> DefaultPost]).self.attrs

\* A load that rejected its first and its last line and kept the middle one.
C2_Witness ==
    /\ pc = "loaded"
    /\ Len(file) = 3
    /\ RejectedNumbers = {1, 3}
    /\ Len(RootLines) = 1
    /\ RootLines[1]._unparsed_line = file[2]

\* C6: a fault other than the skip signal stops the load at its line, reaches
\* the caller unchanged and leaves no file collection.
C6_OtherFaultsAbort ==
    /\ \A i \in DOMAIN log :
          log[i].exc \notin {NoExc, "InvalidLineError", "NotParsed"} =>
             /\ pc = "aborted"
             /\ raised = log[i].exc
             /\ line_number = i
             /\ Len(log) = i
             /\ qs = <<>>
    /\ pc = "aborted" =>
          /\ raised \notin {NoExc, "InvalidLineError"}
          /\ raised = log[Len(log)].exc
          /\ qs = <<>>
          /\ ~ENABLED NextLoad

\* A fault on the second of three lines, after an accepted line.
C6_Witness ==
    /\ pc = "aborted"
    /\ Len(file) = 3
    /\ line_number = 2
    /\ log[1].exc = NoExc
    /\ raised = "ValueError"

\* C7: every record's line number is the 1-based position of its line among
\* all lines read; the numbers of the root collection increase strictly and
\* miss exactly the rejected lines.
C7_LineNumbers ==
    pc = "loaded" =>
       /\ \A k \in DOMAIN RootLines :
             /\ RootLines[k]._line_number \in 1..Len(file)
             /\ RootLines[k]._unparsed_line = file[RootLines[k]._line_number]
       /\ \A k \in DOMAIN RootLines : \A m \in DOMAIN RootLines :
             k < m => RootLines[k]._line_number < RootLines[m]._line_number
       /\ {RootLines[k]._line_number : k \in DOMAIN RootLines}
             = (1..Len(file)) \ RejectedNumbers

\* The first line was rejected and the two after it kept their numbers.
C7_Witness ==
    /\ pc = "loaded"
    /\ Len(file) = 3
    /\ RejectedNumbers = {1}
    /\ [k \in DOMAIN RootLines |-> RootLines[k]._line_number] = <<2, 3>>

(***************************************************************************)
(* Queries: C3, C4, C5, C8, C9, C10.                                       *)
(***************************************************************************)
Called(op) == last.op = op /\ last.on = "queryset"

Returned(op) == Called(op) /\ last.exc = NoExc

\* C3 as claimed: for every set of criteria k, filter(**k) and exclude(**k)
\* split the collection (each record in exactly one of the two), and
\* filter(**k).exclude(**k) is empty.
C3_Partition ==
    Returned("filter") =>
       \A ni \in BoolOfNotImplemented :
          LET src == LinesOf(last.src)
              kept == LinesOf(last.out)
              dropped == ExcludeLines(src, last.args.v, ni)
              chained == ExcludeLines(kept, last.args.v, ni)
          IN  dropped.exc = NoExc /\ chained.exc = NoExc =>
                 /\ \A i \in DOMAIN src :
                       (src[i] \in Range(kept))
                          # (src[i] \in Range(dropped.lines))
                 /\ chained.lines = <<>>

\* The records of src are split between kept and dropped.
Splits(src, kept, dropped) ==
    /\ \A i \in DOMAIN src :
          (src[i] \in Range(kept)) # (src[i] \in Range(dropped))
    /\ Range(kept) \cup Range(dropped) \subseteq Range(src)
    /\ Len(kept) + Len(dropped) = Len(src)

\* C3, amended: for every k of exactly one criterion, whenever the calls
\* return, filter(**k) and exclude(**k) split the collection and
\* filter(**k).exclude(**k) is empty.
C3_PartitionOneCriterion ==
    /\ Returned("filter") /\ Len(last.args.v) = 1 =>
          \A ni \in BoolOfNotImplemented :
             LET src == LinesOf(last.src)
                 kept == LinesOf(last.out)
                 dropped == ExcludeLines(src, last.args.v, ni)
                 chained == ExcludeLines(kept, last.args.v, ni)
             IN  dropped.exc = NoExc /\ chained.exc = NoExc =>
                    /\ Splits(src, kept, dropped.lines)
                    /\ chained.lines = <<>>
    /\ Returned("exclude") /\ Len(last.args.v) = 1 =>
          \A ni \in BoolOfNotImplemented :
             LET src == LinesOf(last.src)
                 kept == FilterLines(src, last.args.v, ni)
             IN  kept.exc = NoExc =>
                    Splits(src, kept.lines, LinesOf(last.out))

\* filter with one criterion has kept one of two records.
C3_Witness ==
    /\ Returned("filter")
    /\ Len(last.args.v) = 1
    /\ Len(LinesOf(last.src)) = 2
    /\ Len(LinesOf(last.out)) = 1
    /\ ExcludeLines(LinesOf(last.src), last.args.v, "True").lines
          = <<CHOOSE l \in Range(LinesOf(last.src)) :
                 l \notin Range(LinesOf(last.out))>>

\* The fields a values() call projects on: those given, or else the active
\* header list of the variant.
Projected(args) == IF args = <<>> THEN MapKeys(parser.map) ELSE args

\* C4 as claimed: a projection on one field, named or being the only header,
\* is a flat sequence of scalars; on several fields, a sequence of tuples;
\* one item per record, in collection order.
C4_ValuesShape ==
    Returned("values") =>
       LET ls == LinesOf(last.src)
           fields == Projected(last.args.v)
           data == last.value.v.data
       IN  /\ Len(data) = Len(ls)
           /\ \A i \in DOMAIN ls :
                 data[i] = IF Len(fields) = 1
                           THEN PyStr(ls[i].attrs[fields[1]])
                           ELSE TupleOf([j \in DOMAIN fields |->
                                           PyStr(ls[i].attrs[fields[j]])])

OrderingOps == {"gt", "ge", "gte", "lt", "le", "lte"}

\* The criterion applies an ordering operator to a field of the records, which
\* holds text, and a supplied value that is no text.
IncompatibleOrdering(c) ==
    /\ Len(c.key) = 2
    /\ c.key[1] \in Range(MapKeys(parser.map))
    /\ c.key[2] \in OrderingOps
    /\ c.value.t # "str"

\* C5 as claimed: an ordering criterion between incompatible types ends the
\* call with an error whenever it is evaluated for a record.
C5_TypeMismatchFatal ==
    /\ (Called("filter") \/ Called("exclude"))
    /\ \E j \in DOMAIN last.args.v : IncompatibleOrdering(last.args.v[j])
    /\ LinesOf(last.src) # <<>>
    => last.exc # NoExc

PositionIn(ls, r) == CHOOSE i \in DOMAIN ls : ls[i] = r

NoTies(ls, field) ==
    \A i \in DOMAIN ls : \A j \in DOMAIN ls :
       i # j => ls[i].attrs[field] # ls[j].attrs[field]

\* C9: order_by(f) holds the same records, sorted by f, equal keys in their
\* original order; without ties order_by(f, reverse=True) is its reverse.
C9_OrderBy ==
    Returned("order_by") =>
       LET src == LinesOf(last.src)
           out == LinesOf(last.out)
           f == last.args.v.field
       IN  /\ Len(out) = Len(src)
           /\ Range(out) = Range(src)
           /\ ~last.args.v.reverse =>
                 \A i \in DOMAIN out : \A j \in DOMAIN out :
                    i < j =>
                       /\ ~StrLess(out[j].attrs[f], out[i].attrs[f])
                       /\ out[i].attrs[f] = out[j].attrs[f] =>
                             PositionIn(src, out[i]) < PositionIn(src, out[j])
           /\ last.args.v.reverse /\ NoTies(src, f) =>
                 /\ \A i \in DOMAIN out : \A j \in DOMAIN out :
                       i < j => StrLess(out[j].attrs[f], out[i].attrs[f])
                 /\ Reverse(out) = OrderByLines(src, f, FALSE).lines

\* Two records with the same key have been ordered.
C9_Witness ==
    /\ Returned("order_by")
    /\ ~last.args.v.reverse
    /\ Len(LinesOf(last.src)) = 2
    /\ ~NoTies(LinesOf(last.src), last.args.v.field)
    /\ LinesOf(last.out) = LinesOf(last.src)

\* C10 as claimed: the file parser itself answers the query calls, as the
\* collection returned by all() does.
C10_FileDelegates ==
    last.on = "file" /\ last.op \in QueryOps => last.exc = NoExc

(***************************************************************************)
(* Construction steps: C11.                                                *)
(***************************************************************************)
IsPrefix(s, t) == Len(s) <= Len(t) /\ SubSeq(t, 1, Len(s)) = s

\* The construction of line i has been left.
Ended(i) ==
    i < line_number \/ lpc \in {"idle", "accepted", "rejected", "fault"}

\* C11: the constructor runs _before_parse, the extraction and _after_parse
\* once each in that order; a hook that raises ends it: after the pre hook's
\* rejection no field is set and the post hook is not run, and a rejected
\* line's record is in no collection.
C11_HookOrder ==
    \A i \in DOMAIN log :
       /\ IsPrefix(log[i].steps, Steps)
       /\ Ended(i) /\ log[i].exc = NoExc => log[i].steps = Steps
       /\ log[i].exc \notin {NoExc, "Running", "NotParsed"} =>
             /\ Ended(i)
             /\ log[i].steps \in {<<"_before_parse">>, Steps}
             /\ i = line_number /\ log[i].steps = <<"_before_parse">> =>
                   rec.attrs = <<>>
       /\ log[i].exc = "InvalidLineError" =>
             /\ \A k \in DOMAIN lines : lines[k]._line_number # i
             /\ \A n \in DOMAIN lists : \A k \in DOMAIN lists[n] :
                   lists[n][k]._line_number # i

\* The pre hook rejected the first line, the post hook the second, and the
\* file is loaded without either.
C11_Witness ==
    /\ pc = "loaded"
    /\ Len(log) = 2
    /\ log[1] = [exc |-> "InvalidLineError", steps |-> <<"_before_parse">>]
    /\ log[2] = [exc |-> "InvalidLineError", steps |-> Steps]
    /\ RootLines = <<>>

(***************************************************************************)
(* Criterion keys: C12.                                                    *)
(***************************************************************************)
\* C12 as claimed: every key, one with several separators included, gives a
\* validator on the part before the first separator with all the rest as
\* its operator; a key without separator gives an equality test.
C12_SplitAtFirst ==
    Called("filter") \/ Called("exclude") =>
       LET fv == FilterValidators(last.args.v)
       IN  /\ last.exc # "ValueError"
           /\ fv.exc = NoExc
           /\ Len(fv.validators) = Len(last.args.v)
           /\ \A j \in DOMAIN fv.validators :
                 LET key == last.args.v[j].key
                     v == fv.validators[j]
                 IN  /\ v.field = key[1]
                     /\ v.value = last.args.v[j].value
                     /\ ~HasSeparator(key) => v.function = "equals"
                     /\ HasSeparator(key) =>
                           /\ v.function = "attr_comparisons"
                           /\ Len(key) = 2 => v.attr = Alias(key[2])

(***************************************************************************)
(* Replaced line text: C13.                                                *)
(***************************************************************************)
\* The extraction has run in the construction under way.
Extracted ==
    \/ lpc \in {"extracted", "accepted"}
    \/ lpc \in {"rejected", "fault"} /\ parser.pre.kind \in {"pass", "replace"}

\* C13 as claimed: when the pre hook has set a replacement text, of any
\* length, every field is cut from it; when it has set none, from the
\* original line.
C13_ReplacementUsed ==
    Extracted =>
       rec.attrs =
          SetFields(<<>>, parser.map,
                    IF parser.pre.kind = "replace" THEN parser.pre.text
                    ELSE rec._unparsed_line, 1)

====
